---- MODULE Spec2Model ----
(***************************************************************************)
(* Delivery pipeline of webhook-inbox: the Redis Streams repository        *)
(* (webhook/redis/repository.go), the intake path                           *)
(* (internal/http/chi/webhooks.go -> webhook.Service.Receive -> Store) and  *)
(* the per-route delivery workers.  One route is modelled at a time; its    *)
(* policy is drawn in Init.  Routes do not share stream, group or keys.     *)
(***************************************************************************)
EXTENDS Integers, Sequences, FiniteSets, TLC

\* ---------------------------------------------------------------- bounds
MaxEvents == 2
MaxRestarts == 1
MaxRetriesBound == 2
MaxParallelism == 2
MaxFileLen == 2
MaxSecretLen == 2
MaxListLen == 2
MaxTypeLen == 5

\* ------------------------------------------------------- domain constants
\* webhook.Status
Pending == 1
Delivering == 2
Delivered == 3
Failed == 4
Retrying == 5

\* webhook.DeliveryMode
FIFO == 1
PubSub == 2

DefaultDeliveredTTLHours == 1
DefaultFailedTTLHours == 24

\* Loader.Load: expected_status used when routes.yaml gives none
DefaultExpectedStatus == 202

\* http.StatusAccepted, StatusBadRequest, StatusNotFound, StatusInternalServerError
StatusAccepted == 202
StatusBadRequest == 400
StatusNotFound == 404
StatusInternalServerError == 500

Ids == 1..MaxEvents

\* Status.String
StatusString(s) ==
  CASE s = Pending -> "pending"
    [] s = Delivering -> "delivering"
    [] s = Delivered -> "delivered"
    [] s = Failed -> "failed"
    [] s = Retrying -> "retrying"
    [] OTHER -> "unknown"

\* NewStatus
NewStatus(str) ==
  CASE str = "pending" -> Pending
    [] str = "delivering" -> Delivering
    [] str = "delivered" -> Delivered
    [] str = "failed" -> Failed
    [] str = "retrying" -> Retrying
    [] OTHER -> Pending

\* Status.IsFinal
IsFinal(s) == s = Delivered \/ s = Failed

\* DeliveryMode.String
ModeString(d) ==
  CASE d = FIFO -> "fifo"
    [] d = PubSub -> "pubsub"
    [] OTHER -> "unknown"

\* NewDeliveryMode
NewDeliveryMode(s) ==
  CASE s = "fifo" -> FIFO
    [] s = "pubsub" -> PubSub
    [] OTHER -> FIFO

\* DeliveryMode.Validate
ModeValid(d) == d = FIFO \/ d = PubSub

\* ------------------------------------------------------------- payloads
\* An event type is a string, modelled as the sequence of its characters:
\* "user.created" is User \o Dot \o Created, the pattern "user.*" is
\* User \o Dot \o Star.
Letters == {"a", "c", "d", "e", "l", "o", "r", "s", "t", "u", "x", "y"}
Dot == <<".">>
Star == <<"*">>
User == <<"u", "s", "e", "r">>
Order == <<"o", "r", "d", "e", "r">>
Created == <<"c", "r", "e", "a", "t", "e", "d">>
Deleted == <<"d", "e", "l", "e", "t", "e", "d">>

\* eventTypePattern: ^[a-zA-Z0-9_]+(\.[a-zA-Z0-9_]+)*$
EventTypeWellFormed(t) ==
  /\ Len(t) >= 1
  /\ \A k \in 1..Len(t) : t[k] \in Letters \cup {"."}
  /\ t[1] # "." /\ t[Len(t)] # "."
  /\ \A k \in 1..(Len(t) - 1) : ~(t[k] = "." /\ t[k + 1] = ".")

\* the ".*" suffix test of MatchesEventType and ValidateEventType
IsWildcard(p) == Len(p) > 2 /\ p[Len(p) - 1] = "." /\ p[Len(p)] = "*"

\* the pattern without its ".*" suffix
Prefix(p) == SubSeq(p, 1, Len(p) - 2)

\* ValidateEventType
ValidateEventType(p) ==
  /\ p # <<>>
  /\ EventTypeWellFormed(IF IsWildcard(p) THEN Prefix(p) ELSE p)

\* MatchesEventType accepting on a shared prefix only, with no exact match
MatchesPrefixOnly(type, eventTypes) ==
  \/ Len(eventTypes) = 0
  \/ \E k \in 1..Len(eventTypes) :
       /\ IsWildcard(eventTypes[k])
       /\ Len(type) > Len(Prefix(eventTypes[k]))
       /\ SubSeq(type, 1, Len(Prefix(eventTypes[k]))) = Prefix(eventTypes[k])
       /\ type[Len(Prefix(eventTypes[k])) + 1] = "."

\* MatchesEventType with no test of the character that follows the prefix
MatchesAnyContinuation(type, eventTypes) ==
  \/ Len(eventTypes) = 0
  \/ \E k \in 1..Len(eventTypes) :
       \/ type = eventTypes[k]
       \/ /\ IsWildcard(eventTypes[k])
          /\ Len(type) > Len(Prefix(eventTypes[k]))
          /\ SubSeq(type, 1, Len(Prefix(eventTypes[k]))) = Prefix(eventTypes[k])

\* StandardPayload.MatchesEventType
MatchesEventType(type, eventTypes) ==
  \/ Len(eventTypes) = 0
  \/ \E k \in 1..Len(eventTypes) :
       \/ type = eventTypes[k]
       \/ /\ IsWildcard(eventTypes[k])
          /\ Len(type) > Len(Prefix(eventTypes[k]))
          /\ SubSeq(type, 1, Len(Prefix(eventTypes[k]))) = Prefix(eventTypes[k])
          /\ type[Len(Prefix(eventTypes[k])) + 1] = "."

\* Request bodies.  A body is a byte string; Json gives what json.Unmarshal reads
\* from it: whether it is a JSON document, and its type, timestamp and data members
\* ("" or <<>> for a missing member).
ValidBodies ==
  <<"user.created@t1", "order.created@t2", "user.deleted@t3", "order.deleted@t4">>

InvalidBodies ==
  {"", "not json", "no type", "bad type", "no timestamp", "bad timestamp",
   "zero timestamp", "no data"}

Bodies == {ValidBodies[k] : k \in 1..Len(ValidBodies)} \cup InvalidBodies

Doc(t, ts, d) == [json |-> TRUE, type |-> t, timestamp |-> ts, data |-> d]

Json(b) ==
  CASE b = "user.created@t1" -> Doc(User \o Dot \o Created, "2024-05-01T10:00:00Z", "{}")
    [] b = "order.created@t2" -> Doc(Order \o Dot \o Created, "2024-05-01T10:00:00Z", "{}")
    [] b = "user.deleted@t3" -> Doc(User \o Dot \o Deleted, "2024-05-01T10:00:00Z", "{}")
    [] b = "order.deleted@t4" -> Doc(Order \o Dot \o Deleted, "2024-05-01T10:00:00Z", "{}")
    [] b = "no type" -> Doc(<<>>, "2024-05-01T10:00:00Z", "{}")
    [] b = "bad type" -> Doc(User \o Dot, "2024-05-01T10:00:00Z", "{}")
    [] b = "no timestamp" -> Doc(User \o Dot \o Created, "", "{}")
    [] b = "bad timestamp" -> Doc(User \o Dot \o Created, "yesterday", "{}")
    [] b = "zero timestamp" -> Doc(User \o Dot \o Created, "0001-01-01T00:00:00Z", "{}")
    [] b = "no data" -> Doc(User \o Dot \o Created, "2024-05-01T10:00:00Z", "")
    [] OTHER -> [json |-> FALSE, type |-> <<>>, timestamp |-> "", data |-> ""]

\* timestamps time.Parse accepts as RFC 3339; the second is the zero time
Timestamps == {"2024-05-01T10:00:00Z", "0001-01-01T00:00:00Z"}

\* payload.Parse: json.Unmarshal (UnmarshalJSON parses the timestamp), then Validate
Parse(b) ==
  LET j == Json(b)
  IN IF ~j.json \/ j.timestamp \notin Timestamps
     THEN [err |-> TRUE, type |-> <<>>]
     ELSE IF \/ j.type = <<>>
             \/ ~EventTypeWellFormed(j.type)
             \/ j.timestamp = "0001-01-01T00:00:00Z"
             \/ j.data = ""
     THEN [err |-> TRUE, type |-> <<>>]
     ELSE [err |-> FALSE, type |-> j.type]

\* --------------------------------------------------------------- routes
\* signing secrets: none, a well-formed one, one without the whsec_ prefix
Secrets == {"", "whsec_c2VjcmV0", "c2VjcmV0"}

SecretValid(x) == x = "" \/ x = "whsec_c2VjcmV0"

\* Route.Validate with no test of the parallelism of a FIFO route
RouteValidAnyParallelism(r) ==
  /\ r.RouteID # ""
  /\ ModeValid(r.Mode)
  /\ r.MaxRetries >= 0
  /\ r.Parallelism >= 1
  /\ r.ExpectedStatus \in {200, 201, 202}
  /\ \A h \in r.DeliveredTTLHours \cup r.FailedTTLHours : h >= 0
  /\ SecretValid(r.SigningSecret)
  /\ \A k \in 1..Len(r.EventTypes) : ValidateEventType(r.EventTypes[k])

\* Route.Validate: the route policies the loader accepts
RouteValid(r) ==
  /\ r.RouteID # ""
  /\ ModeValid(r.Mode)
  /\ r.MaxRetries >= 0
  /\ r.Parallelism >= 1
  /\ ~(r.Mode = FIFO /\ r.Parallelism > 1)
  /\ r.ExpectedStatus \in {200, 201, 202}
  /\ \A h \in r.DeliveredTTLHours \cup r.FailedTTLHours : h >= 0
  /\ SecretValid(r.SigningSecret)
  /\ \A k \in 1..Len(r.EventTypes) : ValidateEventType(r.EventTypes[k])

\* the event_types lists used in route policies
Filters ==
  {<<>>, <<User \o Dot \o Created>>, <<Order \o Dot \o Star>>,
   <<User \o Dot \o Created \o Dot \o Star>>,
   <<User \o Dot \o Star, Order \o Dot \o Created>>}

\* routes.yaml entries.  signing_secret and event_types are keys of the file;
\* RouteConfig declares neither, so yaml.Unmarshal reads the other keys only.
\* An optional key (a *int of RouteConfig) is a set: empty when the key is
\* absent (nil), else the one value given.
Yaml(m, r, p, e, sec, f) ==
  [mode |-> m, max_retries |-> r, parallelism |-> p, expected_status |-> e,
   signing_secret |-> sec, event_types |-> f,
   delivered_ttl_hours |-> {}, failed_ttl_hours |-> {}]

\* Loader.Load: the Route built from one RouteConfig
Load(y) ==
  [RouteID |-> "r1",
   Mode |-> NewDeliveryMode(y.mode),
   MaxRetries |-> y.max_retries,
   Parallelism |-> y.parallelism,
   ExpectedStatus |->
     IF y.expected_status = 0 THEN DefaultExpectedStatus ELSE y.expected_status,
   SigningSecret |-> "",
   EventTypes |-> <<>>,
   DeliveredTTLHours |-> y.delivered_ttl_hours,
   FailedTTLHours |-> y.failed_ttl_hours]

\* the zero Route: what the registry holds before Load, and after a failed Load
NoRoute ==
  [RouteID |-> "", Mode |-> 0, MaxRetries |-> 0, Parallelism |-> 0,
   ExpectedStatus |-> 0, SigningSecret |-> "", EventTypes |-> <<>>,
   DeliveredTTLHours |-> {}, FailedTTLHours |-> {}]

\* routes.yaml as a whole: a list of entries, each a route_id and the other keys
RouteIds == {"r1", "r2"}

Entry(id, y) == [route_id |-> id, config |-> y]

\* Loader.Load, the Route literal: RouteID is rc.RouteID
LoadEntry(e) == [Load(e.config) EXCEPT !.RouteID = e.route_id]

\* NewLoader: the empty registry (NoRoute stands for a missing key of the map)
NoRoutes == [id \in RouteIds |-> NoRoute]

\* Loader.Load, the loop over config.Routes from entry k on: the first route that
\* fails Validate ends the loop with an error, the routes before it staying in the
\* registry; a valid route is assigned to l.routes[route.RouteID]
RECURSIVE LoadFrom(_, _, _)
LoadFrom(file, k, reg) ==
  IF k > Len(file)
  THEN [done |-> TRUE, err |-> FALSE, routes |-> reg]
  ELSE IF ~RouteValid(LoadEntry(file[k]))
  THEN [done |-> TRUE, err |-> TRUE, routes |-> reg]
  ELSE LoadFrom(file, k + 1, [reg EXCEPT ![file[k].route_id] = LoadEntry(file[k])])

LoadFile(file) == LoadFrom(file, 1, NoRoutes)

\* routes.yaml files of the running system: no expected_status, no secret, no filter
Yamls ==
  {Yaml(m, r, p, 0, "", <<>>) :
     m \in {"fifo", "pubsub"}, r \in 0..MaxRetriesBound, p \in 1..MaxParallelism}

Routes == {Load(y) : y \in {z \in Yamls : RouteValid(Load(z))}}

Workers == 1..MaxParallelism

\* --------------------------------------------------------------- state
VARIABLES
  yaml,      \* the route's entry in routes.yaml
  route,     \* the route's policy, read-only after load
  req,       \* per event ID: the intake request (route addressed, body), or the
             \* direct call of Service.Receive (mode, body)
  target,    \* the responses the target URL may give (0: no response, transport error)
  posts,     \* per event ID: the POSTs made to the target, in order
  st,        \* the stream store: hashes, TTLs, stream, consumer group, msgid keys
  ret,       \* outcome of the last repository operation
  ipc,       \* per event ID: position of its intake request inside Receive/Store
  wpc,       \* per worker: position in the delivery loop
  wev,       \* per worker: the event returned by Consume
  wres,      \* per worker: classification of the last delivery attempt
  attempts,  \* per event ID: outcomes of the POSTs made to the target, in order
  acked,     \* event IDs delivered and acknowledged by the workers, in order
  ackLog,    \* per event ID: 0 not acknowledged, 1 acknowledged, 2 Acknowledge called again
  restarts,  \* number of worker restarts so far
  cancelled, \* whether the workers' shared context has been cancelled
  args,      \* arguments of the library function under study, <<>> when none
  out        \* its result, <<>> before the call

vars ==
  <<yaml, route, req, target, posts, st, ret, ipc, wpc, wev, wres, attempts, acked,
    ackLog, restarts, cancelled, args, out>>

\* what no step of the running system writes
envVars == <<yaml, route, req, target, cancelled, args, out>>

\* ------------------------------------------------------ store primitives
\* a Redis hash is a map from field names to values; the empty map is a missing key
NoHash == [f \in {} |-> 0]

HashExists(s, id) == DOMAIN s.hash[id] # {}

\* HSET key f1 v1 f2 v2 ...: creates the key when missing, overwrites given fields
HSet(h, upd) ==
  [f \in DOMAIN h \cup DOMAIN upd |-> IF f \in DOMAIN upd THEN upd[f] ELSE h[f]]

\* HINCRBY that counts from zero whatever the field holds
HIncrByFromZero(h, f, n) == HSet(h, [g \in {f} |-> n])

\* HINCRBY key f n: one atomic command of the server; a missing key or field
\* counts as 0
HIncrBy(h, f, n) ==
  HSet(h, [g \in {f} |-> (IF f \in DOMAIN h THEN h[f] ELSE 0) + n])

\* data["f"] on the map returned by HGETALL: "" for a missing field
Field(h, f) == IF f \in DOMAIN h THEN h[f] ELSE ""

\* parseInt64(data["f"]): Sscanf("%d") of a decimal field; 0 when it is missing
parseInt64(h, f) == IF f \in DOMAIN h THEN h[f] ELSE 0

\* the redis commands a repository operation issues
Commands ==
  {"HSet", "XGroupCreate", "XAdd", "XReadGroup", "HGetAll", "Set", "Get", "XAck", "Del"}

NoFault == {}

\* result of a repository operation: new store, returned error, returned value,
\* and whether some command it issued failed
Result(s, e, o, f) == [st |-> s, err |-> e, out |-> o, failed |-> f]

\* ------------------------------------------------------------ repository
\* a Go string is a sequence of bytes; "a" stands for a byte of valid UTF-8 text,
\* "xFF" for a byte that is not valid UTF-8, and "uFFFD" for the encoding of the
\* replacement rune U+FFFD
ValidUTF8(str) == \A i \in 1..Len(str) : str[i] # "xFF"

\* map[string]string: nil, or a set of key/value pairs
NilMap == [nil |-> TRUE, entries |-> {}]
Map(entries) == [nil |-> FALSE, entries |-> entries]

\* encoding/json on a string: invalid bytes are replaced by U+FFFD
Coerce(str) == [i \in 1..Len(str) |-> IF str[i] = "xFF" THEN "uFFFD" ELSE str[i]]

\* json.Marshal(map[string]string): null for a nil map, else an object whose
\* member names and values are the coerced keys and values
Marshal(m) ==
  [null |-> m.nil, members |-> {<<Coerce(e[1]), Coerce(e[2])>> : e \in m.entries}]

\* json.Unmarshal that fills nothing in
UnmarshalNothing(text) == Map({})

\* json.Unmarshal(text, &headers) into the empty map made by Get: null leaves
\* the map as it is, an object fills it
Unmarshal(text) == Map(IF text.null THEN {} ELSE text.members)

\* time.Time: seconds since the epoch and the nanoseconds within the second
Time(sec, nsec) == [sec |-> sec, nsec |-> nsec]
Unix(t) == t.sec

\* time.Now() of every call of a run, and the headers the handler copies from
\* the request
Now == Time(1, 1)
RequestHeaders == Map({<<(<<"a">>), (<<"a">>)>>})

\* Service.Receive: the Webhook value handed to Store
Webhook(id, mode, body, maxRetries) ==
  [ID |-> id, RouteID |-> route.RouteID, Payload |-> body,
   Headers |-> RequestHeaders, Status |-> Pending, RetryCount |-> 0,
   MaxRetries |-> maxRetries, DeliveryMode |-> mode,
   CreatedAt |-> Now, UpdatedAt |-> Now]

\* postWebhook: Receive(routeID, route.Mode, body, headers, route.MaxRetries)
NewWebhook(id) == Webhook(id, route.Mode, req[id].body, route.MaxRetries)

\* Store with its commands in the other order: the entry is appended first
StoreXAddFirst(s, wh, F) ==
  Result([s EXCEPT !.stream = Append(@, wh.ID)], FALSE, wh.ID, FALSE)

\* Store, first command: HSET webhook:{id} with every field
StoreHSet(s, wh, F) ==
  IF "HSet" \in F
  THEN Result(s, TRUE, "", TRUE)
  ELSE Result([s EXCEPT !.hash[wh.ID] =
                 HSet(@, [id |-> wh.ID,
                         route_id |-> wh.RouteID,
                         payload |-> wh.Payload,
                         headers |-> Marshal(wh.Headers),
                         status |-> StatusString(wh.Status),
                         retry_count |-> wh.RetryCount,
                         max_retries |-> wh.MaxRetries,
                         delivery_mode |-> ModeString(wh.DeliveryMode),
                         created_at |-> Unix(wh.CreatedAt),
                         updated_at |-> Unix(wh.UpdatedAt)])],
              FALSE, wh.ID, FALSE)

\* Store returning the ID with nothing appended to the stream
StoreNoXAdd(s, wh, F) ==
  Result([s EXCEPT !.group = @ \/ ("XGroupCreate" \notin F)], FALSE, wh.ID, FALSE)

\* Store, remaining commands: XGROUP CREATE MKSTREAM (error ignored), then XADD
StoreXAdd(s, wh, F) ==
  LET g == [s EXCEPT !.group = @ \/ ("XGroupCreate" \notin F)]
  IN IF "XAdd" \in F
     THEN Result(g, TRUE, "", TRUE)
     ELSE Result([g EXCEPT !.stream = Append(@, wh.ID)],
                 FALSE, wh.ID, "XGroupCreate" \in F)

\* the zero Webhook
NoEvent ==
  [ID |-> 0, RouteID |-> "", Payload |-> "", Headers |-> NilMap, Status |-> Pending,
   RetryCount |-> 0, MaxRetries |-> 0, DeliveryMode |-> FIFO,
   CreatedAt |-> Time(0, 0), UpdatedAt |-> Time(0, 0)]

\* Store: HSET, then XGROUP CREATE MKSTREAM and XADD
Store(s, wh, F) ==
  LET a == StoreHSet(s, wh, F)
  IN IF a.err THEN a ELSE StoreXAdd(a.st, wh, F)

\* Get leaving Payload empty
GetNoPayload(s, id) ==
  LET h == s.hash[id]
  IN [ID |-> IF "id" \in DOMAIN h THEN h.id ELSE 0,
      RouteID |-> Field(h, "route_id"),
      Payload |-> "",
      Headers |-> IF "headers" \in DOMAIN h THEN Unmarshal(h.headers) ELSE Map({}),
      Status |-> NewStatus(Field(h, "status")),
      RetryCount |-> parseInt64(h, "retry_count"),
      MaxRetries |-> parseInt64(h, "max_retries"),
      DeliveryMode |-> NewDeliveryMode(Field(h, "delivery_mode")),
      CreatedAt |-> Time(parseInt64(h, "created_at"), 0),
      UpdatedAt |-> Time(parseInt64(h, "updated_at"), 0)]

\* Get: the Webhook built from the fields HGETALL returned (an event ID is a
\* number here and the empty ID is 0)
Get(s, id) ==
  LET h == s.hash[id]
  IN [ID |-> IF "id" \in DOMAIN h THEN h.id ELSE 0,
      RouteID |-> Field(h, "route_id"),
      Payload |-> Field(h, "payload"),
      Headers |-> IF "headers" \in DOMAIN h THEN Unmarshal(h.headers) ELSE Map({}),
      Status |-> NewStatus(Field(h, "status")),
      RetryCount |-> parseInt64(h, "retry_count"),
      MaxRetries |-> parseInt64(h, "max_retries"),
      DeliveryMode |-> NewDeliveryMode(Field(h, "delivery_mode")),
      CreatedAt |-> Time(parseInt64(h, "created_at"), 0),
      UpdatedAt |-> Time(parseInt64(h, "updated_at"), 0)]

\* Repository.Get with its error return: the error of HGETALL, "webhook not
\* found" when HGETALL returns no field, else the Webhook
RepositoryGet(s, id, F) ==
  IF "HGetAll" \in F
  THEN Result(s, TRUE, NoEvent, TRUE)
  ELSE IF ~HashExists(s, id)
  THEN Result(s, TRUE, NoEvent, FALSE)
  ELSE Result(s, FALSE, Get(s, id), FALSE)

\* UpdateStatus that writes Delivered whatever status it is given
UpdateStatusDelivered(s, id, status) ==
  Result([s EXCEPT !.hash[id] =
            HSet(@, [status |-> StatusString(Delivered), updated_at |-> Unix(Now)])],
         FALSE, "", FALSE)

\* UpdateStatus that writes nothing
UpdateStatusNoWrite(s, id, status) == Result(s, FALSE, "", FALSE)

\* UpdateStatus: HSET status and updated_at (blind overwrite)
UpdateStatus(s, id, status) ==
  Result([s EXCEPT !.hash[id] = HSet(@, [status |-> StatusString(status), updated_at |-> Unix(Now)])],
         FALSE, "", FALSE)

\* IncrementRetry adding 2
IncrementRetryByTwo(s, id) ==
  Result([s EXCEPT !.hash[id] =
            HSet(@, [retry_count |-> parseInt64(@, "retry_count") + 2,
                     updated_at |-> Unix(Now)])],
         FALSE, "", FALSE)

\* IncrementRetry: HINCRBY retry_count 1 (atomic in the server), then HSET
\* updated_at
IncrementRetryHIncrBy(s, id) == [s EXCEPT !.hash[id] = HIncrBy(@, "retry_count", 1)]
IncrementRetryHSet(s, id) == [s EXCEPT !.hash[id] = HSet(@, [updated_at |-> Unix(Now)])]

IncrementRetry(s, id) ==
  Result(IncrementRetryHSet(IncrementRetryHIncrBy(s, id), id), FALSE, "", FALSE)

\* XREADGROUP that hands out the oldest pending entry before any new one
XReadGroupPendingFirst(s) ==
  IF s.pel # {}
  THEN CHOOSE i \in s.pel : \A j \in s.pel : i <= j
  ELSE IF s.last < Len(s.stream) THEN s.last + 1 ELSE 0

\* XREADGROUP ... ">" COUNT 1: the index of the next entry never delivered to the
\* group, 0 when there is none
XReadGroupNext(s) ==
  IF s.last < Len(s.stream) THEN s.last + 1 ELSE 0

\* Consume reading the next entry without claiming it for the group
ConsumePeek(s, F) ==
  LET g == [s EXCEPT !.group = @ \/ ("XGroupCreate" \notin F)]
      i == XReadGroupNext(g)
  IN IF "XReadGroup" \in F \/ ~g.group
     THEN Result(g, TRUE, <<>>, TRUE)
     ELSE IF i = 0 \/ ~HashExists(g, g.stream[i])
     THEN Result(g, FALSE, <<>>, FALSE)
     ELSE Result([g EXCEPT !.pel = @ \cup {i}, !.msgid[g.stream[i]] = i],
                 FALSE, <<Get(g, g.stream[i])>>, FALSE)

\* Consume
Consume(s, F) ==
  LET g == [s EXCEPT !.group = @ \/ ("XGroupCreate" \notin F)]
      gf == "XGroupCreate" \in F
      i == XReadGroupNext(g)
  IN IF "XReadGroup" \in F \/ ~g.group
     THEN Result(g, TRUE, <<>>, TRUE)
     ELSE IF i = 0
     THEN Result(g, FALSE, <<>>, gf)
     ELSE LET id == g.stream[i]
              c == [g EXCEPT !.last = IF i > @ THEN i ELSE @, !.pel = @ \cup {i}]
          IN IF "HGetAll" \in F \/ ~HashExists(c, id)
             THEN Result(c, FALSE, <<>>, gf \/ "HGetAll" \in F)
             ELSE Result(IF "Set" \in F THEN c ELSE [c EXCEPT !.msgid[id] = i],
                         FALSE, <<Get(c, id)>>, gf \/ "Set" \in F)

\* Acknowledge that deletes the msgid key and leaves the entry pending
AcknowledgeKeepsPending(s, id, F) ==
  Result([s EXCEPT !.msgid[id] = 0], FALSE, "", FALSE)

\* Acknowledge without the redis.Nil case: a missing msgid key is an error
AcknowledgeNilIsError(s, id, F) ==
  IF "Get" \in F \/ s.msgid[id] = 0
  THEN Result(s, TRUE, "", TRUE)
  ELSE IF "XAck" \in F
  THEN Result(s, TRUE, "", TRUE)
  ELSE Result([s EXCEPT !.pel = @ \ {s.msgid[id]},
                        !.msgid[id] = IF "Del" \in F THEN @ ELSE 0],
              FALSE, "", "Del" \in F)

\* Acknowledge: GET msgid (missing: nothing to do), XACK, DEL msgid (error ignored)
Acknowledge(s, id, F) ==
  IF "Get" \in F
  THEN Result(s, TRUE, "", TRUE)
  ELSE IF s.msgid[id] = 0
  THEN Result(s, FALSE, "", FALSE)
  ELSE IF "XAck" \in F
  THEN Result(s, TRUE, "", TRUE)
  ELSE Result([s EXCEPT !.pel = @ \ {s.msgid[id]},
                        !.msgid[id] = IF "Del" \in F THEN @ ELSE 0],
              FALSE, "", "Del" \in F)

\* SetTTL: EXPIRE webhook:{id}; no effect on a missing key
SetTTL(s, id, hours) ==
  Result(IF HashExists(s, id) THEN [s EXCEPT !.ttl[id] = hours] ELSE s,
         FALSE, "", FALSE)

\* DeleteMessageID: DEL webhook:{id}:msgid
DeleteMessageID(s, id) ==
  Result([s EXCEPT !.msgid[id] = 0], FALSE, "", FALSE)

\* *config.Config: nil, or the configuration with its two TTL keys, each given
\* or not
NoConfig == [nil |-> TRUE, delivered |-> {}, failed |-> {}]
Config(d, f) == [nil |-> FALSE, delivered |-> d, failed |-> f]

\* the value of an optional integer that is present
Value(opt) == CHOOSE h \in opt : TRUE

\* Config.GetWebhookDeliveredTTLHours / GetWebhookFailedTTLHours: the configured
\* hours, 1 and 24 when the key is not given
GetWebhookDeliveredTTLHours(cfg) ==
  IF cfg.delivered = {} THEN 1 ELSE Value(cfg.delivered)

GetWebhookFailedTTLHours(cfg) ==
  IF cfg.failed = {} THEN 24 ELSE Value(cfg.failed)

\* GetDeliveredTTL with the configured value taking precedence over the route's
GetDeliveredTTLConfigFirst(r, cfg) ==
  IF ~cfg.nil THEN GetWebhookDeliveredTTLHours(cfg)
  ELSE IF r.DeliveredTTLHours # {} THEN Value(r.DeliveredTTLHours)
  ELSE DefaultDeliveredTTLHours

\* Route.GetDeliveredTTL, in hours
GetDeliveredTTL(r, cfg) ==
  LET hours == IF ~cfg.nil THEN GetWebhookDeliveredTTLHours(cfg)
               ELSE DefaultDeliveredTTLHours
  IN  IF r.DeliveredTTLHours # {} THEN Value(r.DeliveredTTLHours) ELSE hours

\* GetFailedTTL returning the delivered TTL
GetFailedTTLAsDelivered(r, cfg) == GetDeliveredTTL(r, cfg)

\* Route.GetFailedTTL, in hours
GetFailedTTL(r, cfg) ==
  LET hours == IF ~cfg.nil THEN GetWebhookFailedTTLHours(cfg)
               ELSE DefaultFailedTTLHours
  IN  IF r.FailedTTLHours # {} THEN Value(r.FailedTTLHours) ELSE hours

\* what a caller sees of an operation
Ret(r) == [err |-> r.err, failed |-> r.failed]

\* ---------------------------------------------------------------- Init
EmptyStore ==
  [hash |-> [id \in Ids |-> NoHash],
   ttl |-> [id \in Ids |-> 0],
   stream |-> <<>>,
   group |-> FALSE,
   last |-> 0,
   pel |-> {},
   msgid |-> [id \in Ids |-> 0]]

\* the intake requests of the running system: each addresses the route and
\* carries a valid envelope, a different one per request
Request(rt, b) == [via |-> "http", route |-> rt, body |-> b, mode |-> 0]

GoodRequests ==
  [id \in Ids |-> Request("r1", ValidBodies[((id - 1) % Len(ValidBodies)) + 1])]

\* a target that answers 200, 410 or 503: one response of each classification
SomeResponses == {200, 410, 503}

\* everything but the configuration and the environment
InitStore ==
  /\ posts = [id \in Ids |-> <<>>]
  /\ st = EmptyStore
  /\ ret = [err |-> FALSE, failed |-> FALSE]
  /\ ipc = [id \in Ids |-> "none"]
  /\ wpc = [w \in Workers |-> "consume"]
  /\ wev = [w \in Workers |-> NoEvent]
  /\ wres = [w \in Workers |-> "none"]
  /\ attempts = [id \in Ids |-> <<>>]
  /\ acked = <<>>
  /\ ackLog = [id \in Ids |-> 0]
  /\ restarts = 0

\* no library call under study: a run's argument is the process configuration, here with no TTL key given
NoArgs == [cfg |-> Config({}, {})]
NoOut == [done |-> FALSE]

InitRun ==
  /\ InitStore
  /\ cancelled = FALSE
  /\ args = NoArgs
  /\ out = NoOut

Init ==
  /\ yaml \in Yamls
  /\ RouteValid(Load(yaml))
  /\ route = Load(yaml)
  /\ req = GoodRequests
  /\ target = SomeResponses
  /\ InitRun

workerVars == <<posts, wpc, wev, wres, attempts, acked, ackLog, restarts>>

\* bookkeeping of Acknowledge calls: r is the result of a call on id in store s
AckLogged(s, r, id) ==
  [ackLog EXCEPT ![id] =
     IF @ >= 1 THEN 2 ELSE IF s.msgid[id] # 0 /\ ~r.err THEN 1 ELSE 0]

\* --------------------------------------------------------------- intake
\* Service.Receive with no validation of the delivery mode
ReceiveAnyMode(s, wh, F) == StoreHSet(s, wh, F)

\* Service.Receive up to the first command of Store: the delivery mode is
\* validated, the Webhook is built, Store writes the hash
Receive(s, wh, F) ==
  IF ~ModeValid(wh.DeliveryMode)
  THEN Result(s, TRUE, "", FALSE)
  ELSE StoreHSet(s, wh, F)

\* postWebhook answering 400 only when the body is empty
postWebhookChecksEmptyOnly(id) ==
  IF route.RouteID = "" \/ req[id].route # route.RouteID
  THEN StatusNotFound
  ELSE IF req[id].body = ""
  THEN StatusBadRequest
  ELSE 0

\* postWebhook before Receive: the status it answers at once, 0 when it goes on
postWebhook(id) ==
  IF route.RouteID = "" \/ req[id].route # route.RouteID
  THEN StatusNotFound
  ELSE IF Parse(req[id].body).err
  THEN StatusBadRequest
  ELSE 0

\* postWebhook -> Service.Receive: a request that passes the handler's checks is
\* given a fresh ID (uuid.New) and Store issues its first command
ReceiveHSet(id, F) ==
  /\ req[id].via = "http"
  /\ ipc[id] = "none"
  /\ \A j \in Ids : j < id => ipc[j] # "none"
  /\ IF postWebhook(id) # 0
     THEN /\ ipc' = [ipc EXCEPT ![id] =
                       IF postWebhook(id) = StatusNotFound THEN "notfound" ELSE "badrequest"]
          /\ UNCHANGED <<st, ret>>
     ELSE LET r == Receive(st, NewWebhook(id), F)
          IN /\ st' = r.st
             /\ ret' = Ret(r)
             /\ ipc' = [ipc EXCEPT ![id] = IF r.err THEN "error" ELSE "xadd"]
  /\ UNCHANGED <<envVars, workerVars>>

\* Service.Receive called directly (as the service tests call it) with any
\* delivery mode and any payload bytes
ServiceReceive(id, F) ==
  /\ req[id].via = "service"
  /\ ipc[id] = "none"
  /\ \A j \in Ids : j < id => ipc[j] # "none"
  /\ LET r == Receive(st, Webhook(id, req[id].mode, req[id].body, route.MaxRetries), F)
     IN /\ st' = r.st
        /\ ret' = Ret(r)
        /\ ipc' = [ipc EXCEPT ![id] = IF r.err THEN "error" ELSE "xadd"]
  /\ UNCHANGED <<envVars, workerVars>>

ReceiveXAdd(id, F) ==
  /\ ipc[id] = "xadd"
  /\ LET r == StoreXAdd(st, NewWebhook(id), F)
     IN /\ st' = r.st
        /\ ret' = Ret(r)
        /\ ipc' = [ipc EXCEPT ![id] = IF r.err THEN "error" ELSE "done"]
  /\ UNCHANGED <<envVars, workerVars>>

\* the status postWebhook has answered to request id, 0 while it has not answered
HttpStatus(id) ==
  CASE ipc[id] = "done" -> StatusAccepted
    [] ipc[id] = "badrequest" -> StatusBadRequest
    [] ipc[id] = "notfound" -> StatusNotFound
    [] ipc[id] = "error" -> StatusInternalServerError
    [] OTHER -> 0

\* ------------------------------------------------------- delivery worker
\* classification of one delivery attempt
Outcomes == {"success", "nonretriable", "retriable"}

\* responses of a target: 0 stands for no response (network, timeout, DNS error)
StatusCodes ==
  {0, 200, 201, 202, 204, 299, 301, 304, 400, 404, 410, 429, 499,
   500, 501, 502, 503, 504, 599}

\* deliverWebhook accepting status 200 only
deliverWebhook200Only(resp) == resp = 200

\* deliverWebhook: nil (TRUE) for a 2xx response, an error for anything else and
\* for a failed request; route.ExpectedStatus is not read
deliverWebhook(resp) == resp # 0 /\ resp >= 200 /\ resp <= 299

\* classification of a response
Classify(resp) ==
  IF deliverWebhook(resp) THEN "success"
  ELSE IF resp = 0 \/ resp = 429 \/ resp >= 500 THEN "retriable"
  ELSE "nonretriable"

Active(w) == w <= route.Parallelism

\* loop top: events <- Consume(routeID, mode); an empty result loops.  Idle
\* workers of a route are interchangeable (same loop, same consumer group), so
\* the idle worker of lowest index stands for whichever of them reads next.
WorkerConsume(w) ==
  /\ Active(w)
  /\ ~cancelled
  /\ wpc[w] = "consume"
  /\ \A v \in Workers : (v < w /\ Active(v)) => wpc[v] # "consume"
  /\ LET r == Consume(st, NoFault)
     IN /\ st' = r.st
        /\ ret' = Ret(r)
        /\ IF r.out = <<>>
           THEN UNCHANGED <<wpc, wev>>
           ELSE /\ wev' = [wev EXCEPT ![w] = r.out[1]]
                /\ wpc' = [wpc EXCEPT ![w] = "begin"]
  /\ UNCHANGED <<envVars, posts, ipc, wres, attempts, acked, ackLog, restarts>>

\* the event-type filter: the envelope is parsed and matched against
\* route.EventTypes (always empty for a route of the registry: Loader.Load copies
\* no EventTypes)
Filtered(ev) == ~MatchesEventType(Parse(ev.Payload).type, route.EventTypes)

\* a filtered event is a successful no-op: no POST; otherwise
\* UpdateStatus(Delivering) before the request is built
WorkerBegin(w) ==
  /\ Active(w)
  /\ wpc[w] = "begin"
  /\ IF Filtered(wev[w])
     THEN /\ wres' = [wres EXCEPT ![w] = "filtered"]
          /\ wpc' = [wpc EXCEPT ![w] = "final"]
          /\ UNCHANGED <<st, ret>>
     ELSE /\ LET r == UpdateStatus(st, wev[w].ID, Delivering)
             IN st' = r.st /\ ret' = Ret(r)
          /\ wpc' = [wpc EXCEPT ![w] = "post"]
          /\ UNCHANGED wres
  /\ UNCHANGED <<envVars, posts, ipc, wev, attempts, acked, ackLog, restarts>>

\* what the worker does with a classified attempt of event ev
Decide(ev, o) ==
  CASE o = "success" -> "delivered"
    [] o = "nonretriable" -> "failed"
    [] o = "retriable" /\ ev.RetryCount < ev.MaxRetries -> "retry"
    [] OTHER -> "failed"

\* the request deliverWebhook sends: body = payload bytes, webhook-id = event ID,
\* webhook-signature when the route has a signing secret
Post(ev, resp) ==
  [webhookId |-> ev.ID, body |-> ev.Payload, signed |-> route.SigningSecret # "",
   status |-> resp]

\* one POST to the target and the classification of its response
WorkerPost(w) ==
  /\ Active(w)
  /\ wpc[w] = "post"
  /\ \E resp \in target :
       LET o == Classify(resp)
       IN /\ posts' = [posts EXCEPT ![wev[w].ID] = Append(@, Post(wev[w], resp))]
          /\ attempts' = [attempts EXCEPT ![wev[w].ID] = Append(@, o)]
          /\ wres' = [wres EXCEPT ![w] = Decide(wev[w], o)]
          /\ wpc' = [wpc EXCEPT ![w] =
                       IF Decide(wev[w], o) = "retry" THEN "incr" ELSE "final"]
  /\ UNCHANGED <<envVars, st, ret, ipc, wev, acked, ackLog, restarts>>

\* success or permanent failure: UpdateStatus(Delivered | Failed)
WorkerFinal(w) ==
  /\ Active(w)
  /\ wpc[w] = "final"
  /\ LET r == UpdateStatus(st, wev[w].ID,
                           IF wres[w] \in {"delivered", "filtered"}
                           THEN Delivered ELSE Failed)
     IN st' = r.st /\ ret' = Ret(r)
  /\ wpc' = [wpc EXCEPT ![w] = "ack"]
  /\ UNCHANGED <<envVars, posts, ipc, wev, wres, attempts, acked, ackLog, restarts>>

\* ... Ack
WorkerAck(w) ==
  /\ Active(w)
  /\ wpc[w] = "ack"
  /\ LET r == Acknowledge(st, wev[w].ID, NoFault)
     IN st' = r.st /\ ret' = Ret(r) /\ ackLog' = AckLogged(st, r, wev[w].ID)
  /\ acked' = IF wres[w] = "delivered" THEN Append(acked, wev[w].ID) ELSE acked
  /\ wpc' = [wpc EXCEPT ![w] = "delaux"]
  /\ UNCHANGED <<envVars, posts, ipc, wev, wres, attempts, restarts>>

\* ... DeleteAuxKeys
WorkerDeleteAux(w) ==
  /\ Active(w)
  /\ wpc[w] = "delaux"
  /\ LET r == DeleteMessageID(st, wev[w].ID)
     IN st' = r.st /\ ret' = Ret(r)
  /\ wpc' = [wpc EXCEPT ![w] = "ttl"]
  /\ UNCHANGED <<envVars, posts, ipc, wev, wres, attempts, acked, ackLog, restarts>>

\* ... SetTTL(deliveredTTL | failedTTL), then back to the loop top
WorkerSetTTL(w) ==
  /\ Active(w)
  /\ wpc[w] = "ttl"
  /\ LET r == SetTTL(st, wev[w].ID,
                     IF wres[w] \in {"delivered", "filtered"}
                     THEN GetDeliveredTTL(route, args.cfg)
                     ELSE GetFailedTTL(route, args.cfg))
     IN st' = r.st /\ ret' = Ret(r)
  /\ wpc' = [wpc EXCEPT ![w] = "consume"]
  /\ wev' = [wev EXCEPT ![w] = NoEvent]
  /\ wres' = [wres EXCEPT ![w] = "none"]
  /\ UNCHANGED <<envVars, posts, ipc, attempts, acked, ackLog, restarts>>

\* retriable failure with retryCount < maxRetries: IncrementRetry
WorkerIncrementRetry(w) ==
  /\ Active(w)
  /\ wpc[w] = "incr"
  /\ LET r == IncrementRetry(st, wev[w].ID)
     IN st' = r.st /\ ret' = Ret(r)
  /\ wpc' = [wpc EXCEPT ![w] = "retrying"]
  /\ UNCHANGED <<envVars, posts, ipc, wev, wres, attempts, acked, ackLog, restarts>>

\* ... UpdateStatus(Retrying), no ack, backoff sleep, then the loop continues
WorkerRetrying(w) ==
  /\ Active(w)
  /\ wpc[w] = "retrying"
  /\ LET r == UpdateStatus(st, wev[w].ID, Retrying)
     IN st' = r.st /\ ret' = Ret(r)
  /\ wpc' = [wpc EXCEPT ![w] = "consume"]
  /\ wev' = [wev EXCEPT ![w] = NoEvent]
  /\ wres' = [wres EXCEPT ![w] = "none"]
  /\ UNCHANGED <<envVars, posts, ipc, attempts, acked, ackLog, restarts>>

WorkerStep(w) ==
  \/ WorkerConsume(w)
  \/ WorkerBegin(w)
  \/ WorkerPost(w)
  \/ WorkerFinal(w)
  \/ WorkerAck(w)
  \/ WorkerDeleteAux(w)
  \/ WorkerSetTTL(w)
  \/ WorkerIncrementRetry(w)
  \/ WorkerRetrying(w)

\* the workers stop (shutdown or crash) wherever they are and start again
Restart ==
  /\ restarts < MaxRestarts
  /\ restarts' = restarts + 1
  /\ wpc' = [w \in Workers |-> "consume"]
  /\ wev' = [w \in Workers |-> NoEvent]
  /\ wres' = [w \in Workers |-> "none"]
  /\ UNCHANGED <<envVars, posts, st, ret, ipc, attempts, acked, ackLog>>

IntakeStep(id) ==
  \/ ReceiveHSet(id, NoFault)
  \/ ReceiveXAdd(id, NoFault)

Next ==
  \/ \E id \in Ids : IntakeStep(id)
  \/ \E w \in Workers : WorkerStep(w)
  \/ Restart

Spec == Init /\ [][Next]_vars

\* the same system with no restart, under fair scheduling of every worker and of
\* every intake request
NextRun ==
  \/ \E id \in Ids : IntakeStep(id)
  \/ \E w \in Workers : WorkerStep(w)

Fairness ==
  /\ \A w \in Workers : WF_vars(WorkerStep(w))
  /\ \A id \in Ids : WF_vars(IntakeStep(id))

LiveSpec == Init /\ [][NextRun]_vars /\ Fairness

\* restarts included; a restart is never forced
RestartLiveSpec == Init /\ [][Next]_vars /\ Fairness

\* the running system on the FIFO routes of routes.yaml
InitFifo == Init /\ route.Mode = FIFO

SpecFifo == InitFifo /\ [][NextRun]_vars /\ Fairness

\* ------------------------------------------------ routes built directly
\* Route values built in code (as the integration tests build them), with any
\* expected status, signing secret and event-type filter, and one worker
NoYaml == Yaml("", 0, 0, 0, "", <<>>)

DirectRoutes ==
  {r \in [RouteID : {"r1"}, Mode : {FIFO}, MaxRetries : 0..MaxRetriesBound,
          Parallelism : {1}, ExpectedStatus : {200, 201, 202},
          SigningSecret : Secrets, EventTypes : Filters,
          DeliveredTTLHours : {{}}, FailedTTLHours : {{}}] : RouteValid(r)}

\* a target that may give any response, behind a route of any expected status
InitClassify ==
  /\ yaml = NoYaml
  /\ route \in DirectRoutes
  /\ route.EventTypes = <<>>
  /\ route.SigningSecret = ""
  /\ req = GoodRequests
  /\ target = StatusCodes
  /\ InitRun

SpecClassify == InitClassify /\ [][NextRun]_vars /\ Fairness

\* a route with any event-type filter and signing secret
InitFilter ==
  /\ yaml = NoYaml
  /\ route \in DirectRoutes
  /\ route.ExpectedStatus = DefaultExpectedStatus
  /\ req = GoodRequests
  /\ target = SomeResponses
  /\ InitRun

SpecFilter == InitFilter /\ [][NextRun]_vars /\ Fairness

\* routes that give or leave out each TTL key, run under a configuration that is
\* nil or gives or leaves out each of its TTL keys
TTLRoutes ==
  {r \in [RouteID : {"r1"}, Mode : {FIFO}, MaxRetries : {0, 1},
          Parallelism : {1}, ExpectedStatus : {DefaultExpectedStatus},
          SigningSecret : {""}, EventTypes : {<<>>},
          DeliveredTTLHours : {{}, {2}}, FailedTTLHours : {{}, {48}}] : RouteValid(r)}

Configs == {NoConfig} \cup {Config(d, f) : d \in {{}, {3}}, f \in {{}, {72}}}

InitTTL ==
  /\ yaml = NoYaml
  /\ route \in TTLRoutes
  /\ req = GoodRequests
  /\ target = SomeResponses
  /\ InitStore
  /\ cancelled = FALSE
  /\ args \in {[cfg |-> c] : c \in Configs}
  /\ out = NoOut

SpecTTL == InitTTL /\ [][NextRun]_vars /\ Fairness

\* ------------------------------------------- the repository used directly
\* a client of the repository (as the integration tests are): any operation,
\* on any event, in any order
ClientConsume(F) ==
  /\ LET r == Consume(st, F)
     IN st' = r.st /\ ret' = Ret(r)
  /\ UNCHANGED <<envVars, ipc, workerVars>>

ClientAcknowledge(id, F) ==
  /\ LET r == Acknowledge(st, id, F)
     IN st' = r.st /\ ret' = Ret(r) /\ ackLog' = AckLogged(st, r, id)
  /\ UNCHANGED <<envVars, posts, ipc, wpc, wev, wres, attempts, acked, restarts>>

ClientSetTTL(id) ==
  /\ \E hours \in {DefaultDeliveredTTLHours, DefaultFailedTTLHours} :
       LET r == SetTTL(st, id, hours)
       IN st' = r.st /\ ret' = Ret(r)
  /\ UNCHANGED <<envVars, ipc, workerVars>>

\* the store expires a hash whose TTL has run out
Expire(id) ==
  /\ st.ttl[id] > 0
  /\ st' = [st EXCEPT !.hash[id] = NoHash, !.ttl[id] = 0]
  /\ UNCHANGED <<envVars, ret, ipc, workerVars>>

NextRepo ==
  \/ \E id \in Ids : IntakeStep(id)
  \/ ClientConsume(NoFault)
  \/ \E id \in Ids : ClientAcknowledge(id, NoFault)
  \/ \E id \in Ids : ClientSetTTL(id)
  \/ \E id \in Ids : Expire(id)

SpecRepo == Init /\ [][NextRepo]_vars

\* the same client against a store whose commands may fail: at most one command
\* of an operation fails.  The reply of XGROUP CREATE is discarded by Store and by
\* Consume, which cannot tell a failure from "group already exists": it is not
\* made to fail here.
FaultSets == {NoFault} \cup {{c} : c \in Commands \ {"XGroupCreate"}}

NextFault ==
  \/ \E id \in Ids, F \in FaultSets : ReceiveHSet(id, F)
  \/ \E id \in Ids, F \in FaultSets : ReceiveXAdd(id, F)
  \/ \E F \in FaultSets : ClientConsume(F)
  \/ \E id \in Ids, F \in FaultSets : ClientAcknowledge(id, F)

SpecFault == Init /\ [][NextFault]_vars

\* ------------------------------------------------------- intake alone
\* requests of every kind: to the route or to an unknown one, with any body; and
\* direct calls of Service.Receive with any delivery mode
ServiceCall(m, b) == [via |-> "service", route |-> "r1", body |-> b, mode |-> m]

Requests ==
  {Request(rt, b) : rt \in {"r1", "r2"}, b \in Bodies}
    \cup {ServiceCall(m, b) : m \in {0, FIFO, PubSub, 3}, b \in {ValidBodies[1], "not json"}}

\* at most one request differs from the requests of the running system
InitIntake ==
  /\ yaml \in Yamls
  /\ RouteValid(Load(yaml))
  /\ route = Load(yaml)
  /\ req \in [Ids -> Requests]
  /\ \E id \in Ids : \A j \in Ids \ {id} : req[j] = GoodRequests[j]
  /\ target = SomeResponses
  /\ InitRun

\* the commands of Store may fail
StoreFaults == {NoFault, {"HSet"}, {"XAdd"}}

NextIntake ==
  \/ \E id \in Ids, F \in StoreFaults : ReceiveHSet(id, F)
  \/ \E id \in Ids, F \in StoreFaults : ServiceReceive(id, F)
  \/ \E id \in Ids, F \in StoreFaults : ReceiveXAdd(id, F)
  \/ ClientConsume(NoFault)

SpecIntake == InitIntake /\ [][NextIntake]_vars

\* ------------------------------------------------- loading routes.yaml
\* routes.yaml entries with every key, valid or not
AllYamls ==
  {Yaml(m, r, p, e, sec, f) :
     m \in {"fifo", "pubsub", "queue", ""}, r \in (0 - 1)..MaxRetriesBound,
     p \in 0..MaxParallelism, e \in {0, 200, 201, 202, 204},
     sec \in Secrets, f \in Filters}

InitLoad ==
  /\ yaml \in AllYamls
  /\ route = NoRoute
  /\ req = GoodRequests
  /\ target = SomeResponses
  /\ InitRun

\* Loader.Load at startup: the Route is validated and put in the registry; a
\* route that fails validation makes Load return an error
LoadStep ==
  /\ route = NoRoute
  /\ ~ret.err
  /\ IF RouteValid(Load(yaml))
     THEN route' = Load(yaml) /\ UNCHANGED ret
     ELSE ret' = [err |-> TRUE, failed |-> FALSE] /\ UNCHANGED route
  /\ UNCHANGED <<yaml, req, target, cancelled, args, out, st, ipc, workerVars>>

SpecLoad == InitLoad /\ [][LoadStep]_vars

\* -------------------------------------------------------------- metrics
\* RedisCollector.GetQueueLengths, for the one route: XLEN of the route's stream
GetQueueLengths(s) == Len(s.stream)

\* ------------------------------------------------------------- shutdown
\* the signal handler cancels the context every worker and handler shares
Cancel ==
  /\ ~cancelled
  /\ cancelled' = TRUE
  /\ UNCHANGED <<yaml, route, req, target, args, out, st, ret, ipc, workerVars>>

\* a worker at the loop top after the cancellation: Consume, every command of
\* which fails on the cancelled context, returns an error and claims nothing;
\* the loop ends
WorkerExit(w) ==
  /\ Active(w)
  /\ cancelled
  /\ wpc[w] = "consume"
  /\ LET r == Consume(st, Commands)
     IN st' = r.st /\ ret' = Ret(r)
  /\ wpc' = [wpc EXCEPT ![w] = "exited"]
  /\ UNCHANGED <<envVars, posts, ipc, wev, wres, attempts, acked, ackLog, restarts>>

\* after the cancellation the intake accepts no new request; a request it has
\* begun to store is finished
NextShutdown ==
  \/ \E id \in Ids : IntakeStep(id) /\ (cancelled => ipc[id] # "none")
  \/ \E w \in Workers : WorkerStep(w)
  \/ \E w \in Workers : WorkerExit(w)
  \/ Cancel

\* the running system on the routes that allow one retry
InitShutdown == Init /\ route.MaxRetries = 1

SpecShutdown ==
  /\ InitShutdown
  /\ [][NextShutdown]_vars
  /\ \A w \in Workers : WF_vars(WorkerStep(w)) /\ WF_vars(WorkerExit(w))

\* ------------------------------------------- library functions on their own
\* the system idle: no route loaded, nothing stored, one call under study
InitLibrary ==
  /\ yaml = NoYaml
  /\ route = NoRoute
  /\ req = GoodRequests
  /\ target = SomeResponses
  /\ InitStore
  /\ cancelled = FALSE
  /\ out = NoOut

Return(result) ==
  /\ ~out.done
  /\ out' = result
  /\ UNCHANGED <<yaml, route, req, target, cancelled, args, st, ret, ipc, workerVars>>

\* routes.yaml files of up to MaxFileLen entries, with route IDs that repeat or
\* are empty and policies that Validate accepts or rejects
FileEntries ==
  {Entry(id, Yaml(m, r, p, 0, "", <<>>)) :
     id \in RouteIds \cup {""}, m \in {"fifo", "pubsub"},
     r \in {0, MaxRetriesBound}, p \in 1..MaxParallelism}

Files == UNION {[1..n -> FileEntries] : n \in 0..MaxFileLen}

InitLoadFile == InitLibrary /\ args \in {[file |-> f] : f \in Files}

LoadFileStep == Return(LoadFile(args.file))

SpecLoadFile == InitLoadFile /\ [][LoadFileStep]_vars

\* ------------------------------------------------- Standard Webhooks signing
SignatureVersion == "v1"

\* raw secrets: byte strings of 1..MaxSecretLen bytes; the HMAC block is as long
\* as the longest secret (64 bytes in the source)
SecretBytes == {0, 1}
BlockSize == MaxSecretLen
Keys == UNION {[1..n -> SecretBytes] : n \in 1..MaxSecretLen}

\* strings are sequences of characters
Contains(s, ch) == \E k \in 1..Len(s) : s[k] = ch

DigitChars == <<"0", "1", "2", "3", "4", "5", "6", "7", "8", "9">>

\* strconv.FormatInt(n, 10) of a non-negative n
RECURSIVE FormatInt(_)
FormatInt(n) ==
  IF n < 10 THEN <<DigitChars[n + 1]>>
  ELSE FormatInt(n \div 10) \o <<DigitChars[(n % 10) + 1]>>


\* fmt.Sprintf("%s.%s.%s", msgID, timestampStr, payload)
SignedContent(msgID, timestampStr, payload) ==
  msgID \o <<".">> \o timestampStr \o <<".">> \o payload

\* crypto/hmac: a key shorter than the block is padded with zero bytes; the MAC
\* is a function of the padded key and of the message, taken to be free of
\* collisions
ZeroPad(key) == [k \in 1..BlockSize |-> IF k <= Len(key) THEN key[k] ELSE 0]
Mac(key, msg) == [n |-> 32, key |-> ZeroPad(key), msg |-> msg]
NoBytes == [n |-> 0, key |-> ZeroPad(<<>>), msg |-> <<>>]

\* base64.StdEncoding: a text that encodes bytes, or a text that decodes to an
\* error
EncodeToString(bytes) == [text |-> "base64", bytes |-> bytes]
Undecodable == [text |-> "%%%", bytes |-> NoBytes]
DecodeString(s) == [err |-> s.text # "base64", bytes |-> s.bytes]

NoSignature == [Version |-> "", Signature |-> EncodeToString(NoBytes)]

\* Sign that signs any message ID
SignAnyId(secret, msgID, timestamp, payload) ==
  [err |-> FALSE,
   sig |-> [Version |-> SignatureVersion,
            Signature |-> EncodeToString(
              Mac(secret, SignedContent(msgID, FormatInt(Unix(timestamp)), payload)))]]

Sign(secret, msgID, timestamp, payload) ==
  IF Contains(msgID, ".") THEN [err |-> TRUE, sig |-> NoSignature]
  ELSE [err |-> FALSE,
        sig |-> [Version |-> SignatureVersion,
                 Signature |-> EncodeToString(
                   Mac(secret, SignedContent(msgID, FormatInt(Unix(timestamp)), payload)))]]

Verify(secret, msgID, timestamp, payload, expectedSig) ==
  IF expectedSig.Version # SignatureVersion THEN [valid |-> FALSE, err |-> TRUE]
  ELSE LET calculatedSig == Sign(secret, msgID, timestamp, payload)
           expected == DecodeString(expectedSig.Signature)
           calculated == DecodeString(calculatedSig.sig.Signature)
       IN  IF calculatedSig.err \/ expected.err \/ calculated.err
           THEN [valid |-> FALSE, err |-> TRUE]
           ELSE [valid |-> expected.bytes = calculated.bytes, err |-> FALSE]

\* message IDs, timestamps and payloads of a signing call and of the
\* verification that follows it
MsgIds == {<<>>, <<"a">>, <<"1">>, <<"a", ".", "1">>}
SignTimes == {Time(s, 0) : s \in {1, 11}}
VerifyTimes == {Time(s, n) : s \in {1, 11}, n \in {0, 5}}
Payloads == {<<>>, <<"a">>, <<"1", ".", "a">>, <<"a", ".", "1">>}

InitSign ==
  /\ InitLibrary
  /\ args \in [secret : Keys, msgID : MsgIds, timestamp : SignTimes, payload : Payloads,
               secret2 : Keys, msgID2 : MsgIds, timestamp2 : VerifyTimes,
               payload2 : Payloads]

SignStep ==
  /\ out = NoOut
  /\ LET s == Sign(args.secret, args.msgID, args.timestamp, args.payload)
     IN  out' = [done |-> s.err, signed |-> ~s.err, sig |-> s.sig,
                 valid |-> FALSE, err |-> s.err]
  /\ UNCHANGED <<yaml, route, req, target, cancelled, args, st, ret, ipc, workerVars>>

VerifyStep ==
  /\ out # NoOut /\ ~out.done
  /\ LET v == Verify(args.secret2, args.msgID2, args.timestamp2, args.payload2, out.sig)
     IN  out' = [out EXCEPT !.done = TRUE, !.valid = v.valid, !.err = v.err]
  /\ UNCHANGED <<yaml, route, req, target, cancelled, args, st, ret, ipc, workerVars>>

SpecSign == InitSign /\ [][SignStep \/ VerifyStep]_vars

\* VerifyMultiple that gives up at the first pair Verify cannot evaluate
RECURSIVE VerifyFromStopOnError(_, _, _, _, _, _, _)
VerifyFromStopOnError(secrets, msgID, timestamp, payload, signatures, i, j) ==
  IF i > Len(signatures) THEN [valid |-> FALSE, err |-> FALSE]
  ELSE IF j > Len(secrets)
       THEN VerifyFromStopOnError(secrets, msgID, timestamp, payload, signatures, i + 1, 1)
  ELSE LET v == Verify(secrets[j], msgID, timestamp, payload, signatures[i])
       IN  IF v.err THEN [valid |-> FALSE, err |-> TRUE]
           ELSE IF v.valid THEN [valid |-> TRUE, err |-> FALSE]
           ELSE VerifyFromStopOnError(secrets, msgID, timestamp, payload, signatures, i, j + 1)

\* the two loops of VerifyMultiple, from signature i and secret j on
RECURSIVE VerifyFrom(_, _, _, _, _, _, _)
VerifyFrom(secrets, msgID, timestamp, payload, signatures, i, j) ==
  IF i > Len(signatures) THEN [valid |-> FALSE, err |-> FALSE]
  ELSE IF j > Len(secrets)
       THEN VerifyFrom(secrets, msgID, timestamp, payload, signatures, i + 1, 1)
  ELSE LET v == Verify(secrets[j], msgID, timestamp, payload, signatures[i])
       IN  IF v.err
           THEN VerifyFrom(secrets, msgID, timestamp, payload, signatures, i, j + 1)
           ELSE IF v.valid THEN [valid |-> TRUE, err |-> FALSE]
           ELSE VerifyFrom(secrets, msgID, timestamp, payload, signatures, i, j + 1)

VerifyMultiple(secrets, msgID, timestamp, payload, signatures) ==
  IF Len(secrets) = 0 \/ Len(signatures) = 0 THEN [valid |-> FALSE, err |-> TRUE]
  ELSE VerifyFrom(secrets, msgID, timestamp, payload, signatures, 1, 1)

\* one webhook, and the candidate signatures of its header: signatures of the
\* webhook and of another payload under each secret, a signature of another
\* version, one that is not base64
TheTime == Time(11, 0)
ThePayload == <<"a", ".", "1">>
RotationKeys == {k \in Keys : Len(k) <= 2 /\ k[Len(k)] = 1}
Candidates ==
  {Sign(k, <<"a">>, TheTime, p).sig : k \in RotationKeys, p \in {ThePayload, <<>>}}
    \cup {[Version |-> "v2", Signature |-> Sign(k, <<"a">>, TheTime, ThePayload).sig.Signature] :
            k \in RotationKeys}
    \cup {[Version |-> SignatureVersion, Signature |-> Undecodable]}

SecretLists == UNION {[1..n -> RotationKeys] : n \in 0..MaxListLen}
SignatureLists == UNION {[1..n -> Candidates] : n \in 0..MaxListLen}

InitVerifyMultiple ==
  /\ InitLibrary
  /\ args \in [secrets : SecretLists, signatures : SignatureLists,
               msgID : {<<"a">>, <<"a", ".", "1">>}]

VerifyMultipleStep ==
  /\ out = NoOut
  /\ LET v == VerifyMultiple(args.secrets, args.msgID, TheTime, ThePayload, args.signatures)
     IN  out' = [done |-> TRUE, valid |-> v.valid, err |-> v.err]
  /\ UNCHANGED <<yaml, route, req, target, cancelled, args, st, ret, ipc, workerVars>>

SpecVerifyMultiple == InitVerifyMultiple /\ [][VerifyMultipleStep]_vars

\* every well-formed event type of up to MaxTypeLen characters over two letters
\* and the full stop, and filter lists of patterns over the same characters:
\* exact types, wildcards of one and of two segments, and ".*"
MatchTypes ==
  {t \in UNION {[1..n -> {"x", "y", "."}] : n \in 1..MaxTypeLen} : EventTypeWellFormed(t)}

MatchPatterns ==
  {<<"x">>, <<"x", "y">>, <<"x", ".", "y">>, <<"x", ".", "*">>, <<"y", ".", "*">>,
   <<"x", "y", ".", "*">>, <<"x", ".", "y", ".", "*">>, <<".", "*">>}

FilterLists == UNION {[1..n -> MatchPatterns] : n \in 0..MaxListLen}

InitMatch == InitLibrary /\ args \in [type : MatchTypes, eventTypes : FilterLists]

MatchStep ==
  /\ out = NoOut
  /\ out' = [done |-> TRUE, matches |-> MatchesEventType(args.type, args.eventTypes)]
  /\ UNCHANGED <<yaml, route, req, target, cancelled, args, st, ret, ipc, workerVars>>

SpecMatch == InitMatch /\ [][MatchStep]_vars

\* ------------------------------------- IncrementRetry and UpdateStatus, concurrent
\* callers of IncrementRetry and UpdateStatus on the events of the store, their
\* commands interleaved one by one; calls[id] counts the IncrementRetry calls on
\* id that have issued HINCRBY, open[id] those that have not yet issued their HSET
NoCalls == [done |-> FALSE, calls |-> [id \in Ids |-> 0], open |-> [id \in Ids |-> 0]]

InitRetry ==
  /\ yaml \in Yamls
  /\ RouteValid(Load(yaml))
  /\ route = Load(yaml)
  /\ route.Mode = PubSub
  /\ req = GoodRequests
  /\ target = SomeResponses
  /\ InitStore
  /\ cancelled = FALSE
  /\ args = NoArgs
  /\ out = NoCalls

\* IncrementRetry, first command
RetryHIncrBy(id) ==
  /\ out.calls[id] < MaxRetriesBound
  /\ st' = IncrementRetryHIncrBy(st, id)
  /\ out' = [out EXCEPT !.calls[id] = @ + 1, !.open[id] = @ + 1]
  /\ UNCHANGED <<yaml, route, req, target, cancelled, args, ret, ipc, workerVars>>

\* IncrementRetry, second command and return
RetryHSet(id) ==
  /\ out.open[id] > 0
  /\ st' = IncrementRetryHSet(st, id)
  /\ ret' = [err |-> FALSE, failed |-> FALSE]
  /\ out' = [out EXCEPT !.open[id] = @ - 1]
  /\ UNCHANGED <<yaml, route, req, target, cancelled, args, ipc, workerVars>>

ClientUpdateStatus(id, status) ==
  /\ LET r == UpdateStatus(st, id, status)
     IN st' = r.st /\ ret' = Ret(r)
  /\ UNCHANGED <<envVars, ipc, workerVars>>

\* the calls are made on one stored event, the first, while the others are stored
Studied == {id \in Ids : \A j \in Ids : id <= j}

NextRetry ==
  \/ \E id \in Ids : IntakeStep(id)
  \/ \E id \in Studied : ipc[id] = "done" /\ RetryHIncrBy(id)
  \/ \E id \in Studied : RetryHSet(id)
  \/ \E id \in Studied, status \in Pending..Retrying :
       ipc[id] = "done" /\ ClientUpdateStatus(id, status)

SpecRetry == InitRetry /\ [][NextRetry]_vars

\* -------------------------------------------------- Store and Get on their own
\* Webhook values of every kind: statuses and delivery modes inside and outside
\* their ranges, headers nil, empty, of text and of bytes that are not text
HeaderStrings == {<<"a">>, <<"xFF">>}
HeaderMaps ==
  {NilMap, Map({})} \cup {Map({<<k, v>>}) : k \in HeaderStrings, v \in HeaderStrings}

Webhooks ==
  [ID : Ids, RouteID : {"r1"}, Payload : {"", ValidBodies[1]}, Headers : HeaderMaps,
   Status : 0..Retrying, RetryCount : {0, 2}, MaxRetries : {3},
   DeliveryMode : {FIFO, PubSub, 3},
   CreatedAt : {Time(11, 5)}, UpdatedAt : {Time(1, 0), Time(11, 5)}]

InitStoreGet == InitLibrary /\ args \in [wh : Webhooks]

\* the client stores the Webhook once
ClientStore ==
  /\ ipc[args.wh.ID] = "none"
  /\ LET r == Store(st, args.wh, NoFault)
     IN /\ st' = r.st
        /\ ret' = Ret(r)
        /\ ipc' = [ipc EXCEPT ![args.wh.ID] = "done"]
  /\ UNCHANGED <<envVars, workerVars>>

\* the client reads an ID; had records whether the hash existed at the call
ClientGet(id) ==
  /\ LET r == RepositoryGet(st, id, NoFault)
     IN out' = [done |-> TRUE, id |-> id, had |-> HashExists(st, id),
                err |-> r.err, wh |-> r.out]
  /\ UNCHANGED <<yaml, route, req, target, cancelled, args, st, ret, ipc, workerVars>>

NextStoreGet ==
  \/ ClientStore
  \/ \E id \in Ids : ClientGet(id)
  \/ \E id \in Ids : ClientSetTTL(id)
  \/ \E id \in Ids : Expire(id)

SpecStoreGet == InitStoreGet /\ [][NextStoreGet]_vars

\* the same calls, whole, on the IDs that have no hash (never stored, or
\* expired), with Get, SetTTL and expiry
ClientIncrementRetry(id) ==
  /\ LET r == IncrementRetry(st, id)
     IN st' = r.st /\ ret' = Ret(r)
  /\ UNCHANGED <<envVars, ipc, workerVars>>

NextMissing ==
  \/ \E id \in Ids : IntakeStep(id)
  \/ \E id \in Ids : ~HashExists(st, id) /\ ClientIncrementRetry(id)
  \/ \E id \in Ids : ~HashExists(st, id) /\ ClientUpdateStatus(id, Delivered)
  \/ \E id \in Ids : ~out.done /\ ClientGet(id)
  \/ \E id \in Ids : ClientSetTTL(id)
  \/ \E id \in Ids : Expire(id)

SpecMissing == InitFifo /\ [][NextMissing]_vars

\* ------------------------------------------ Consume and Acknowledge, observed
\* a client that stores, consumes and acknowledges, with what its calls returned:
\* got lists the IDs Consume returned, in order, n is the length of the last
\* list returned, acked holds the IDs for which Acknowledge returned success
NoneGot == [done |-> FALSE, got |-> <<>>, n |-> 0, acked |-> {}]

InitConsume ==
  /\ yaml \in Yamls
  /\ RouteValid(Load(yaml))
  /\ route = Load(yaml)
  /\ req = GoodRequests
  /\ target = SomeResponses
  /\ InitStore
  /\ cancelled = FALSE
  /\ args = NoArgs
  /\ out = NoneGot

ConsumeCall ==
  /\ LET r == Consume(st, NoFault)
     IN /\ st' = r.st
        /\ ret' = Ret(r)
        /\ out' = [out EXCEPT !.got = @ \o [k \in 1..Len(r.out) |-> r.out[k].ID],
                              !.n = Len(r.out)]
  /\ UNCHANGED <<yaml, route, req, target, cancelled, args, ipc, workerVars>>

AcknowledgeCall(id) ==
  /\ \E k \in 1..Len(out.got) : out.got[k] = id
  /\ LET r == Acknowledge(st, id, NoFault)
     IN /\ st' = r.st
        /\ ret' = Ret(r)
        /\ out' = [out EXCEPT !.acked = IF r.err THEN @ ELSE @ \cup {id}]
  /\ UNCHANGED <<yaml, route, req, target, cancelled, args, ipc, workerVars>>

ClientDeleteMessageID(id) ==
  /\ LET r == DeleteMessageID(st, id)
     IN st' = r.st /\ ret' = Ret(r)
  /\ UNCHANGED <<envVars, ipc, workerVars>>

\* the store expires a msgid key, set with a TTL of 24 hours
ExpireMessageID(id) ==
  /\ st.msgid[id] # 0
  /\ st' = [st EXCEPT !.msgid[id] = 0]
  /\ UNCHANGED <<envVars, ret, ipc, workerVars>>

NextConsume ==
  \/ \E id \in Ids : IntakeStep(id)
  \/ ConsumeCall
  \/ \E id \in Ids : AcknowledgeCall(id)
  \/ \E id \in Ids : ClientDeleteMessageID(id)
  \/ \E id \in Ids : ExpireMessageID(id)

SpecConsume == InitConsume /\ [][NextConsume]_vars

\* ------------------------------------------------------------ retry backoff
\* route.retryBackoff: an expression over constants, the variable retried and
\* the functions pow, min and max, yielding milliseconds
Const(v) == [op |-> "const", v |-> v]
Retried == [op |-> "retried"]
Apply(op, a, b) == [op |-> op, a |-> a, b |-> b]

\* pow computed as b * e
PowLinear(b, e) == b * e

\* pow(b, e) for a whole exponent
RECURSIVE Pow(_, _)
Pow(b, e) == IF e = 0 THEN 1 ELSE b * Pow(b, e - 1)

\* the value of an expression for a value of retried
RECURSIVE Eval(_, _)
Eval(x, retried) ==
  CASE x.op = "const" -> x.v
    [] x.op = "retried" -> retried
    [] x.op = "pow" -> Pow(Eval(x.a, retried), Eval(x.b, retried))
    [] x.op = "mul" -> Eval(x.a, retried) * Eval(x.b, retried)
    [] x.op = "min" -> IF Eval(x.a, retried) <= Eval(x.b, retried)
                       THEN Eval(x.a, retried) ELSE Eval(x.b, retried)
    [] x.op = "max" -> IF Eval(x.a, retried) >= Eval(x.b, retried)
                       THEN Eval(x.a, retried) ELSE Eval(x.b, retried)

\* the ceiling of a sleep: 5 minutes, in milliseconds
BackoffCeiling == 300000

\* jitter, in percent of the computed value
JitterPercents == {-20, -10, 0, 10, 20}

\* the sleep for a computed backoff and a drawn jitter: jitter, then the ceiling
Sleep(ms, j) ==
  LET d == ms + ((ms * j) \div 100)
  IN IF d > BackoffCeiling THEN BackoffCeiling ELSE d

\* pow(2, retried) * 10, min(pow(2, retried) * 10, 15), and an expression that
\* passes the ceiling: pow(2, retried) * 200000
Doubling(unit) == Apply("mul", Apply("pow", Const(2), Retried), Const(unit))
BackoffExprs == {Doubling(10), Apply("min", Doubling(10), Const(15)), Doubling(200000)}

\* one event of a route and the answers of its target, attempt by attempt; the
\* worker's attempts and sleeps are logged in out
Answering == [1..(MaxRetriesBound + 1) -> SomeResponses]

NoSleeps ==
  [done |-> FALSE, attempts |-> 0, retried |-> 0, sleeps |-> <<>>, asleep |-> FALSE]

InitBackoff ==
  /\ yaml = NoYaml
  /\ route = NoRoute
  /\ req = GoodRequests
  /\ target = SomeResponses
  /\ InitStore
  /\ cancelled = FALSE
  /\ args \in [retryBackoff : BackoffExprs, answers : Answering]
  /\ out = NoSleeps

\* one delivery attempt, classified: a retriable failure with retries left puts
\* the worker to sleep, anything else ends the event
AttemptStep ==
  /\ ~out.done /\ ~out.asleep
  /\ LET o == Classify(args.answers[out.attempts + 1])
     IN out' = [out EXCEPT !.attempts = @ + 1,
                           !.asleep = o = "retriable" /\ out.retried < MaxRetriesBound,
                           !.done = ~(o = "retriable" /\ out.retried < MaxRetriesBound)]
  /\ UNCHANGED <<yaml, route, req, target, cancelled, args, st, ret, ipc, workerVars>>

\* the sleep before the next attempt: the backoff of the retries made so far,
\* with a jitter drawn anew
SleepStep ==
  /\ out.asleep
  /\ \E j \in JitterPercents :
       out' = [out EXCEPT !.sleeps = Append(@, Sleep(Eval(args.retryBackoff, out.retried), j)),
                          !.retried = @ + 1,
                          !.asleep = FALSE]
  /\ UNCHANGED <<yaml, route, req, target, cancelled, args, st, ret, ipc, workerVars>>

NextBackoff == AttemptStep \/ SleepStep

SpecBackoff == InitBackoff /\ [][NextBackoff]_vars

\* ---------------------------------------------------------------- claims
\* the status and the counters Get reads from the hash of id
StatusOf(id) == NewStatus(Field(st.hash[id], "status"))
RetryCountOf(id) == parseInt64(st.hash[id], "retry_count")
MaxRetriesOf(id) == parseInt64(st.hash[id], "max_retries")

Held(i) == i <= Len(st.stream) /\ \E w \in Workers : wev[w].ID = st.stream[i]

IsPrefix(a, b) == Len(a) <= Len(b) /\ \A k \in 1..Len(a) : a[k] = b[k]

Count(seq, x) == Cardinality({k \in 1..Len(seq) : seq[k] = x})

\* C1: on a FIFO route with no restart, a worker holds an event only when every
\* event stored before it is terminal (a retriably failed event is retried before
\* the next one is consumed), and while no event is Failed the events delivered
\* and acknowledged are, in order, the first events of the stream.
C1_FifoOrder ==
  (route.Mode = FIFO /\ restarts = 0) =>
    /\ \A i \in 1..Len(st.stream) :
         Held(i) => \A j \in 1..(i - 1) : IsFinal(StatusOf(st.stream[j]))
    /\ (\A id \in Ids : StatusOf(id) # Failed) => IsPrefix(acked, st.stream)

\* C2: under fair scheduling, every event accepted by Store eventually reaches
\* Delivered or Failed.
C2_EventuallyTerminal ==
  \A id \in Ids : (ipc[id] = "done") ~> IsFinal(StatusOf(id))

\* C3: a stream entry left claimed and unacknowledged when the workers stopped
\* stays in the pending set and is handed out again by Consume after the restart.
C3_Reclaimed ==
  \A i \in Ids : (restarts > 0 /\ i \in st.pel /\ ~Held(i)) ~> (Held(i) \/ i \notin st.pel)

C6_Retries ==
  /\ [](\A id \in Ids :
          /\ Len(attempts[id]) <= route.MaxRetries + 1
          /\ StatusOf(id) = Delivered => RetryCountOf(id) = Count(attempts[id], "retriable"))
  /\ \A id \in Ids : \A n \in 1..MaxRetriesBound :
       (Len(attempts[id]) = n /\ attempts[id][n] = "retriable" /\ n <= route.MaxRetries)
         ~> (Len(attempts[id]) > n)

\* C7: every entry of the stream belongs to an event whose hash is written, and
\* every event a worker obtained from Consume has its hash.
C7_HashBeforeEntry ==
  /\ \A i \in 1..Len(st.stream) : HashExists(st, st.stream[i])
  /\ \A w \in Workers : wev[w].ID # 0 => HashExists(st, wev[w].ID)

C7_Witness ==
  \E id \in Ids :
    /\ ipc[id] = "xadd"
    /\ \E w \in Workers : wev[w].ID # 0

\* C8: Acknowledge called on an event that was already acknowledged, or that has
\* no msgid key, returns success and leaves the store unchanged.
C8_AckIdempotent ==
  [][\A id \in Ids :
       (ClientAcknowledge(id, NoFault) /\ (ackLog[id] >= 1 \/ st.msgid[id] = 0))
         => (~ret'.err /\ st' = st)]_vars

C8_Witness ==
  \E id \in Ids : ackLog[id] = 2 /\ ~ret.err

\* C9: a Consume that claims an entry whose hash is absent acknowledges the entry:
\* the entry is not left in the pending set.
C9_SkipAcks ==
  [][\A i \in Ids :
       (st.last = i - 1 /\ st'.last = i /\ ~HashExists(st, st.stream[i]))
         => i \notin st'.pel]_vars

\* C10: a repository operation one of whose store commands failed returns an error.
C10_NoMaskedFailure == ret.failed => ret.err

C12_NonRetriableFinal ==
  /\ [](\A id \in Ids :
         (attempts[id] # <<>> /\ attempts[id][1] = "nonretriable") =>
           (Len(posts[id]) = 1 /\ RetryCountOf(id) = 0))
  /\ \A id \in Ids :
       (attempts[id] = <<"nonretriable">>) ~>
         [](/\ StatusOf(id) = Failed
            /\ RetryCountOf(id) = 0
            /\ Len(posts[id]) = 1
            /\ \A i \in st.pel : st.stream[i] # id
            /\ st.msgid[id] = 0
            /\ st.ttl[id] = 24)

C12_Witness ==
  \E id \in Ids :
    /\ Len(posts[id]) = 1 /\ posts[id][1].status = 410
    /\ StatusOf(id) = Failed /\ RetryCountOf(id) = 0
    /\ id \in {ackLog[k] : k \in 1..Len(ackLog)}
    /\ st.msgid[id] = 0
    /\ st.ttl[id] = DefaultFailedTTLHours

\* C13: for a route with expectedStatus e, an attempt answered e is a success,
\* and an attempt answered with any other 2xx status is a non-retriable failure
\* after which the event is not attempted again, is not retried and is never
\* Delivered.
C13_ExpectedStatus ==
  \A id \in Ids : \A k \in 1..Len(posts[id]) :
    LET s == posts[id][k].status
    IN /\ s = route.ExpectedStatus => attempts[id][k] = "success"
       /\ (s \in 200..299 /\ s # route.ExpectedStatus) =>
            /\ attempts[id][k] = "nonretriable"
            /\ Len(posts[id]) = k
            /\ RetryCountOf(id) = 0
            /\ StatusOf(id) # Delivered

TypeOf(id) == Json(req[id].body).type

Covers(pat, type) ==
  \/ pat = type
  \/ /\ Len(pat) >= 2 /\ pat[Len(pat) - 1] = "." /\ pat[Len(pat)] = "*"
     /\ Len(type) >= Len(pat) - 1
     /\ \A j \in 1..(Len(pat) - 1) : type[j] = pat[j]

Wanted(id) ==
  route.EventTypes = <<>> \/
    \E k \in 1..Len(route.EventTypes) : Covers(route.EventTypes[k], TypeOf(id))

C16_OneWorkerPerEntry ==
  /\ [](\A v \in Workers, w \in Workers :
         (route.Mode = PubSub /\ route.Parallelism > 1 /\ v # w /\ wev[v].ID # 0) =>
           wev[v].ID # wev[w].ID)
  /\ [][\A w \in Workers :
         (/\ route.Mode = PubSub /\ route.Parallelism > 1
          /\ wev'[w].ID # 0 /\ wev'[w] # wev[w]) =>
           \E i \in 1..Len(st.stream) :
             /\ st.stream[i] = wev'[w].ID
             /\ i > st.last
             /\ i \notin st.pel]_vars
  /\ [](/\ route.Mode = PubSub /\ route.Parallelism > 1
        /\ \A id \in Ids : \A k \in 1..Len(attempts[id]) : attempts[id][k] = "success")
       => \A id \in Ids : (ipc[id] = "done") ~> [](StatusOf(id) = Delivered)

C16_Witness ==
  /\ route.Mode = PubSub
  /\ route.Parallelism > 1
  /\ \E v \in Workers, w \in Workers :
       /\ v # w
       /\ wpc[v] = "post" /\ wpc[w] = "post"
       /\ wev[v].ID # 0 /\ wev[w].ID # 0

C18_RejectedLeavesStore ==
  [][\A id \in Ids :
       req[id].via = "http" =>
         /\ (HttpStatus(id) = 0 /\ HttpStatus(id)' \in {400, 404}) => st' = st
         /\ HttpStatus(id)' \in {400, 404} =>
              (~HashExists(st', id) /\ Count(st'.stream, id) = 0)
         /\ (HttpStatus(id) = 0 /\ HttpStatus(id)' = 202) =>
              st'.stream = Append(st.stream, id)
         /\ HttpStatus(id)' = 202 => Count(st'.stream, id) = 1]_vars

C18_Witness ==
  \E a \in Ids, b \in Ids :
    /\ req[a].via = "http" /\ HttpStatus(a) = 202
    /\ req[b].via = "http" /\ HttpStatus(b) \in {400, 404}
    /\ st.stream = <<a>>
    /\ HashExists(st, a) /\ ~HashExists(st, b)

\* C19: an event created by the intake handler is stored with status Pending,
\* retryCount 0, the payload exactly as received and the delivery mode and
\* maxRetries of the route; an event created by Receive called with a valid mode
\* is stored with that mode; and Receive called with a mode that is neither
\* FIFO nor PubSub returns an error and writes nothing to the store.
C19_StoredAsReceived ==
  \A id \in Ids :
    /\ (req[id].via = "http" /\ HashExists(st, id)) =>
         Get(st, id) = [ID |-> id, RouteID |-> route.RouteID,
                        Payload |-> req[id].body, Headers |-> RequestHeaders,
                        Status |-> Pending,
                        RetryCount |-> 0, MaxRetries |-> route.MaxRetries,
                        DeliveryMode |-> route.Mode,
                        CreatedAt |-> Time(Unix(Now), 0),
                        UpdatedAt |-> Time(Unix(Now), 0)]
    /\ (req[id].via = "service" /\ req[id].mode \in {FIFO, PubSub} /\ HashExists(st, id)) =>
         Get(st, id) = [ID |-> id, RouteID |-> route.RouteID,
                        Payload |-> req[id].body, Headers |-> RequestHeaders,
                        Status |-> Pending,
                        RetryCount |-> 0, MaxRetries |-> route.MaxRetries,
                        DeliveryMode |-> req[id].mode,
                        CreatedAt |-> Time(Unix(Now), 0),
                        UpdatedAt |-> Time(Unix(Now), 0)]
    /\ (req[id].via = "service" /\ req[id].mode \notin {FIFO, PubSub}) =>
         /\ ~HashExists(st, id)
         /\ Count(st.stream, id) = 0
         /\ ipc[id] \in {"none", "error"}

C19_Witness ==
  \E a \in Ids, b \in Ids :
    /\ route.Mode = PubSub /\ route.MaxRetries > 0
    /\ req[a].via = "http" /\ ipc[a] = "done" /\ HashExists(st, a)
    /\ req[b].via = "service" /\ req[b].mode = 3 /\ ipc[b] = "error"

\* C20: a route loaded from routes.yaml is in the registry with every key of
\* its entry: its SigningSecret is the signing_secret of the entry and its
\* EventTypes are the event_types of the entry, as its mode, max_retries and
\* parallelism are those of the entry.
C20_LoadKeepsKeys ==
  route # NoRoute =>
    /\ route.Mode = NewDeliveryMode(yaml.mode)
    /\ route.MaxRetries = yaml.max_retries
    /\ route.Parallelism = yaml.parallelism
    /\ route.SigningSecret = yaml.signing_secret
    /\ route.EventTypes = yaml.event_types

\* C21: route IDs are unique: Load of a routes file in which two entries have
\* the same route_id returns an error, so no route of the file is replaced in
\* the registry by a later one.
C21_UniqueRouteIds ==
  out.done =>
    ((\E i \in 1..Len(args.file), j \in 1..Len(args.file) :
        i < j /\ args.file[i].route_id = args.file[j].route_id) => out.err)

\* C22: Load accepts a route only when its mode is "fifo" or "pubsub": a route
\* loaded into the registry has one of these two strings as the mode of its
\* entry, and an entry with any other mode, or none, makes Load return an error.
C22_ModeStrings ==
  /\ route # NoRoute => yaml.mode \in {"fifo", "pubsub"}
  /\ (ret.err \/ route # NoRoute) => (yaml.mode \notin {"fifo", "pubsub"} => ret.err)

\* C23: a route of the registry with mode FIFO has parallelism exactly 1, the
\* number of workers started for it; an entry that gives a FIFO route a
\* parallelism above or below 1 is not loaded.
C23_FifoParallelism ==
  /\ (route # NoRoute /\ route.Mode = FIFO) =>
       route.Parallelism = 1
  /\ (ret.err \/ route # NoRoute) =>
       ((NewDeliveryMode(yaml.mode) = FIFO /\ yaml.parallelism # 1) => route = NoRoute)

C23_Witness ==
  /\ route # NoRoute
  /\ yaml.mode = "fifo" /\ yaml.parallelism = 1
  /\ route.Mode = FIFO /\ route.Parallelism = 1

\* C24 as stated: a signature made by Sign for a message ID without '.' is
\* verified by Verify exactly when the secret, the message ID, the timestamp in
\* seconds and the payload are the ones that were signed.
C24_RoundTripAnySecret ==
  (out # NoOut /\ out.done /\ out.signed) =>
    /\ (out.valid /\ ~out.err) <=>
         /\ args.secret2 = args.secret
         /\ args.msgID2 = args.msgID
         /\ args.timestamp2.sec = args.timestamp.sec
         /\ args.payload2 = args.payload
    /\ out.err <=> Contains(args.msgID2, ".")

\* the byte at position k of a secret as the MAC reads it
KeyByte(key, k) == IF k <= Len(key) THEN key[k] ELSE 0
SameKey(a, b) == \A k \in 1..MaxSecretLen : KeyByte(a, k) = KeyByte(b, k)

\* C24: a signature made by Sign for a message ID without '.' is verified by
\* Verify exactly when the message ID, the timestamp in seconds and the payload
\* are the ones that were signed and the secret is the signing secret up to
\* trailing zero bytes; a secret that differs in any other byte, or another ID,
\* second or payload, gives false.
C24_RoundTrip ==
  (out # NoOut /\ out.done /\ out.signed) =>
    /\ (out.valid /\ ~out.err) <=>
         /\ SameKey(args.secret2, args.secret)
         /\ args.msgID2 = args.msgID
         /\ args.timestamp2.sec = args.timestamp.sec
         /\ args.payload2 = args.payload
    /\ out.err <=> Contains(args.msgID2, ".")

C24_Witness ==
  /\ out # NoOut /\ out.done /\ out.signed /\ out.valid /\ ~out.err
  /\ args.secret2 = args.secret /\ args.msgID2 = args.msgID
  /\ args.payload2 = args.payload /\ args.payload # <<>>
  /\ args.timestamp2.nsec # args.timestamp.nsec

\* the pair of signature i and secret j verifies the webhook
PairVerifies(i, j) ==
  LET v == Verify(args.secrets[j], args.msgID, TheTime, ThePayload, args.signatures[i])
  IN  ~v.err /\ v.valid

\* C25: with an empty list of secrets or of signatures VerifyMultiple returns an
\* error; with both lists non-empty it returns no error, and true exactly when
\* some (secret, signature) pair verifies, whatever the other candidates are
\* (of an unsupported version, not decodable, or made by another secret).
C25_VerifyMultiple ==
  out.done =>
    IF Len(args.secrets) = 0 \/ Len(args.signatures) = 0 THEN out.err
    ELSE /\ ~out.err
         /\ out.valid <=> \E i \in 1..Len(args.signatures), j \in 1..Len(args.secrets) :
                            PairVerifies(i, j)

C25_Witness ==
  /\ out.done /\ out.valid /\ ~out.err
  /\ Len(args.signatures) = 2 /\ Len(args.secrets) = 2
  /\ \/ args.signatures[1].Version # SignatureVersion
     \/ args.signatures[1].Signature = Undecodable
  /\ ~PairVerifies(2, 1) /\ PairVerifies(2, 2)

\* C26: for a valid event type T and a filter list L, MatchesEventType returns
\* true exactly when L is empty or some pattern P of L is T itself or is Q.* with
\* T starting with Q followed by a full stop; so the list of the one pattern x.*
\* matches x.y and x.y.x and matches none of x, xy and y.x.
C26_MatchesEventType ==
  out.done =>
    /\ out.matches <=>
         \/ args.eventTypes = <<>>
         \/ \E k \in 1..Len(args.eventTypes) : Covers(args.eventTypes[k], args.type)
    /\ args.eventTypes = << <<"x", ".", "*">> >> =>
         /\ args.type \in {<<"x", ".", "y">>, <<"x", ".", "y", ".", "x">>} => out.matches
         /\ args.type \in {<<"x">>, <<"x", "y">>, <<"y", ".", "x">>} => ~out.matches

C26_Witness ==
  /\ out.done /\ out.matches
  /\ args.eventTypes = << <<"x", "y">>, <<"x", ".", "*">> >>
  /\ args.type = <<"x", ".", "y", ".", "x">>

\* the hours the precedence gives: the route's value when the route has one,
\* otherwise the configuration's when there is a configuration that has one,
\* otherwise the default
Precedence(routeHours, cfgNil, cfgHours, default) ==
  IF routeHours # {} THEN Value(routeHours)
  ELSE IF ~cfgNil /\ cfgHours # {} THEN Value(cfgHours)
  ELSE default

\* C27: the TTL on the hash of a Delivered event is the route's
\* delivered_ttl_hours when set, otherwise the configured value, otherwise 1 h;
\* the TTL on the hash of a Failed event is the route's failed_ttl_hours when
\* set, otherwise the configured value, otherwise 24 h.
C27_TTLPrecedence ==
  \A id \in Ids :
    st.ttl[id] > 0 =>
      /\ StatusOf(id) = Delivered =>
           st.ttl[id] = Precedence(route.DeliveredTTLHours, args.cfg.nil,
                                   args.cfg.delivered, 1)
      /\ StatusOf(id) = Failed =>
           st.ttl[id] = Precedence(route.FailedTTLHours, args.cfg.nil,
                                   args.cfg.failed, 24)

C27_Witness ==
  \E a \in Ids, b \in Ids :
    /\ route.DeliveredTTLHours = {2} /\ route.FailedTTLHours = {}
    /\ args.cfg = Config({3}, {72})
    /\ StatusOf(a) = Delivered /\ st.ttl[a] = 2
    /\ StatusOf(b) = Failed /\ st.ttl[b] = 72

AwaitsDelivery(i) ==
  ~(IsFinal(StatusOf(st.stream[i])) /\ i \notin st.pel)

\* C30: the queue length reported for the route is the number of its stored
\* events that still await delivery, so it is 0 once every stored event is
\* terminal and acknowledged.
C30_QueueLengthIsPending ==
  GetQueueLengths(st) = Cardinality({i \in 1..Len(st.stream) : AwaitsDelivery(i)})

\* C32 as stated: Store followed by Get returns the same ID, routeID, payload,
\* headers, status, retryCount, maxRetries and deliveryMode, with the timestamps
\* at second granularity, for every valid status and delivery mode, whatever the
\* bytes of the headers; and Get of an ID never stored, or expired, is not-found.
SameWebhook(a, b) ==
  /\ a.ID = b.ID /\ a.RouteID = b.RouteID /\ a.Payload = b.Payload
  /\ a.Headers.entries = b.Headers.entries
  /\ a.Status = b.Status /\ a.RetryCount = b.RetryCount
  /\ a.MaxRetries = b.MaxRetries /\ a.DeliveryMode = b.DeliveryMode
  /\ Unix(a.CreatedAt) = Unix(b.CreatedAt) /\ b.CreatedAt.nsec = 0
  /\ Unix(a.UpdatedAt) = Unix(b.UpdatedAt) /\ b.UpdatedAt.nsec = 0

ValidStored(wh) ==
  wh.Status \in Pending..Retrying /\ wh.DeliveryMode \in {FIFO, PubSub}

TextHeaders(wh) ==
  \A e \in wh.Headers.entries : ValidUTF8(e[1]) /\ ValidUTF8(e[2])

IncrementRetryFields == {"retry_count", "updated_at"}

C31_Count ==
  \A id \in Ids : HashExists(st, id) => RetryCountOf(id) = out.calls[id]

C31_Fields ==
  [][out' # out =>
       \A id \in Ids :
         /\ HashExists(st, id) => DOMAIN st'.hash[id] = DOMAIN st.hash[id]
         /\ \A f \in DOMAIN st.hash[id] \ IncrementRetryFields :
              st'.hash[id][f] = st.hash[id][f]]_vars

C31_AtomicIncrement == []C31_Count /\ C31_Fields

C31_Witness ==
  \E id \in Ids :
    /\ out.calls[id] = MaxRetriesBound /\ out.open[id] = MaxRetriesBound
    /\ RetryCountOf(id) = MaxRetriesBound
    /\ StatusOf(id) = Retrying

\* C39: UpdateStatus and IncrementRetry on an ID that has no hash (never stored,
\* or expired) return no error and bring no event into existence: every hash of
\* the store is one that Store wrote, it is not left without a TTL by such a
\* call, and a Get that succeeds returns the event of the ID asked for.
C39_NoEventFromUpdate ==
  /\ \A id \in Ids : HashExists(st, id) => "payload" \in DOMAIN st.hash[id]
  /\ out.done /\ ~out.err => out.wh.ID = out.id

\* C33: Consume returns at most one event per call, and none when no entry is
\* waiting; the events successive calls return are, in order, the first events
\* stored, each once: a call made while an entry that was never delivered is
\* waiting returns the oldest such entry, so n stored events are obtained by n
\* calls.
C33_OneAtATime ==
  /\ out.n <= 1
  /\ IsPrefix(out.got, st.stream)
  /\ Len(out.got) = st.last

C33_NextInOrder ==
  [][out'.got # out.got \/ out'.n # out.n \/ st'.last # st.last =>
       IF Len(out.got) < Len(st.stream)
       THEN out'.n = 1 /\ out'.got = Append(out.got, st.stream[Len(out.got) + 1])
       ELSE out'.n = 0 /\ out'.got = out.got]_vars

C33_ConsumeInOrder == []C33_OneAtATime /\ C33_NextInOrder

C33_Witness ==
  /\ Len(st.stream) = MaxEvents
  /\ out.got = st.stream
  /\ out.acked = {st.stream[k] : k \in 1..Len(st.stream)}
  /\ out.n = 0

\* C34: whenever Acknowledge has returned success for an event that Consume
\* returned, the event's stream entry is not in the group's pending set and its
\* msgid key is gone, also when the msgid key expired or was removed by
\* DeleteMessageID before Acknowledge was called.
C34_AckedNotPending ==
  \A id \in out.acked :
    /\ st.msgid[id] = 0
    /\ \A i \in st.pel : st.stream[i] # id

\* C35 as stated: every status change of an event is an edge of the lifecycle
\* graph Pending -> Delivering, Delivering -> Delivered, Delivering -> Failed,
\* Delivering -> Retrying, Retrying -> Delivering.
LifecycleEdges ==
  {<<Pending, Delivering>>, <<Delivering, Delivered>>, <<Delivering, Failed>>,
   <<Delivering, Retrying>>, <<Retrying, Delivering>>}

FilteredNoOp(id) == \E w \in Workers : wev[w].ID = id /\ wres[w] = "filtered"

RECURSIVE Sum(_)
Sum(seq) == IF seq = <<>> THEN 0 ELSE seq[1] + Sum(Tail(seq))

\* what pow(2, retried) * unit is for retried = 0, 1, 2, 3
DoublingTable(unit) == <<unit, 2 * unit, 4 * unit, 8 * unit>>

WithinJitter(d, ms) ==
  \/ 5 * d >= 4 * ms /\ 5 * d <= 6 * ms /\ d <= BackoffCeiling
  \/ 5 * BackoffCeiling <= 6 * ms /\ d = BackoffCeiling

SleepsOf(unit) ==
  args.retryBackoff = Doubling(unit) =>
    \A k \in 1..Len(out.sleeps) : WithinJitter(out.sleeps[k], DoublingTable(unit)[k])

ThirdAttempt ==
  /\ args.retryBackoff = Doubling(10)
  /\ SubSeq(args.answers, 1, 3) = <<503, 503, 200>>
  /\ out.attempts = 3

Terminal(id) == HashExists(st, id) /\ StatusOf(id) \in {Delivered, Failed}

InProcess(id) == \E w \in Workers : wev[w].ID = id

Settled(id) ==
  /\ st.msgid[id] = 0
  /\ \A i \in st.pel : st.stream[i] # id

Unacknowledged(i) == i > st.last \/ i \in st.pel

C38_QueueMatchesMetadata ==
  \A id \in Ids :
    (HashExists(st, id) /\ ~IsFinal(StatusOf(id)) /\ ipc[id] # "xadd") =>
      /\ Count(st.stream, id) = 1
      /\ \A i \in 1..Len(st.stream) : st.stream[i] = id => Unacknowledged(i)

====
